---- MODULE Spec2Model ----
(***************************************************************************)
(* Model of the cardapiopro-web client.                                    *)
(*                                                                         *)
(*  - TrackSpec: the order-tracking page (OrderPage, src/unnamed/part_003):*)
(*    the polling state machine with its timer, the fetches in flight and  *)
(*    the backend's order status.                                          *)
(*  - FormSpec: the menu page (MenuClient, src/unnamed/part_000) under a   *)
(*    fixed catalog: cart, customer fields, payment selection, validation  *)
(*    and order submission with retry; the user acts on a settled page.    *)
(*  - CartSpec: the same page with the user changing the cart at any time, *)
(*    the background refresh (refreshSilent) and a backend whose catalog   *)
(*    changes.                                                             *)
(*  - CartOpsSpec: addProduct, removeProduct, clearCart and the updater of *)
(*    syncCartWithProducts applied in any order to any product record.    *)
(*  - SubmitSpec: order submission with the backend's side of each         *)
(*    create-order request: the order may be stored although the answer    *)
(*    never reaches the page.                                              *)
(*  - PhoneSpec: the page loading a restaurant with any phone string, for  *)
(*    the WhatsApp link.                                                   *)
(*  - OrderSpec: cash orders with the user adding products while a         *)
(*    submission runs and the backend's prices changing.                   *)
(*  - TrackLiveSpec, SubmitLiveSpec: the tracking page that stays mounted  *)
(*    and the order submission, with the fairness the runtime gives to     *)
(*    timers, promise continuations and requests that have a timeout.      *)
(*  - MenuSpec: the menu page with the user and the backend's catalog      *)
(*    acting at any time.                                                  *)
(*                                                                         *)
(* Strings the code inspects are modelled as tuples: a phone or money      *)
(* input is a tuple of one-character strings, an error message a tuple of  *)
(* words, so that onlyDigits, parseBRLToCents and String.includes are      *)
(* computed, not assumed.                                                  *)
(***************************************************************************)
EXTENDS Integers, Sequences, FiniteSets, TLC

(***************************************************************************)
(* Bounds of the model.                                                    *)
(***************************************************************************)
\* fetches one tracking session may issue
MaxFetches == 3
\* timer identifiers handed out by setTimeout (recycled once cleared/fired)
MaxTimers == 3
\* largest quantity of one product the user puts in the cart
MaxQty == 2
\* addProduct/removeProduct calls on one product in a sequence of cart operations
MaxCalls == 4

\* characters of the restaurant's phone as the backend holds it
MaxPhoneLen == 4

(***************************************************************************)
(* Order tracking page: state.                                             *)
(***************************************************************************)
VARIABLES
    order,          \* useState<Order|null>: "null" or the held order's status
    loading,        \* useState(true)
    error,          \* useState<string|null>: "null" or the message
    attempt,        \* useState(1)
    timerRef,       \* timerRef.current: 0 (null) or a timer id
    pendingTimers,  \* timers set by setTimeout(fetchOrder, 4000) not yet fired or cleared
    inflight,       \* fetches awaiting completion: records [id, resp, via]
    nFetch,         \* fetches issued so far in this session
    srvStatus,      \* the backend's order: "NONE" (not indexed yet) or its status
    mounted,        \* the page's effect is live (between mount and cleanup)
    termSeen,       \* history: a fetch has returned a DELIVERED/CANCELED order
    okSeen,         \* history: a fetch has returned an order
    lastDone        \* history: outcome of the fetch that completed last

trackVars == << order, loading, error, attempt, timerRef, pendingTimers,
                inflight, nFetch, srvStatus, mounted, termSeen, okSeen,
                lastDone >>

(***************************************************************************)
(* Menu page: state.                                                       *)
(***************************************************************************)
VARIABLES
    restaurant,      \* useState<Restaurant|null>: [loaded, isOpen]
    products,        \* useState<Product[]>: the catalog mirror (set of records)
    loadingFirst,    \* useState(true)
    loadError,       \* useState<string|null>: "null" or the message
    cart,            \* useState<Record<string, CartItem>>: id -> [product, qty]
    customerName,    \* the three customer inputs, tuples of characters
    customerPhone,
    customerAddress,
    paymentMethod,   \* useState<PaymentMethod>("PIX")
    cashChangeFor,   \* the change-for input, a tuple of characters
    isSubmitting,    \* useState(false)
    toast,           \* useState<{type,msg}|null>: [type, msg, arg]
    sub,             \* the running finalizeOrder(): its position and its closure
    loadPc,          \* the running loadFirstTime(): "idle" or "inflight"
    navTimer,        \* setTimeout(() => location.href = /pedido/{orderId}, 500)
    navTo,           \* window.location.href once navigated: "none" or the order id
    browser,         \* the engine whose fetch() error messages the page sees
    srvOpen,         \* backend: the restaurant's isOpen
    srvCatalog,      \* backend: product id -> "active" | "inactive" | "absent"
    postLog,         \* history: outcome of each create-order request of the
                     \* running (or just ended) submission, in order
    netCalls,        \* history: requests that submission issued, in order
    isFetchingRef,   \* isFetchingRef.current: a refreshSilent() is running
    nRefresh,        \* refreshSilent() calls awaiting their Promise.all
    srvPrice,        \* backend: product id -> priceCents
    opCalls,         \* history of the cart operations applied on their own:
                     \* count: per product, the addProduct/removeProduct calls
                     \* since the cart was cleared or reconcile dropped it;
                     \* last: the operation applied last
    srvPhone,        \* backend: the restaurant's phone, a tuple of characters
                     \* (<< >> for null)
    srvOrders        \* backend: orders created from the create-order requests
                     \* of the submission on record: their count, and whether
                     \* the request now in flight has already produced one

menuVars == << restaurant, products, loadingFirst, loadError, cart, customerName,
               customerPhone, customerAddress, paymentMethod, cashChangeFor,
               isSubmitting, toast, sub, loadPc, navTimer, navTo, browser,
               srvOpen, srvCatalog, postLog, netCalls, isFetchingRef, nRefresh,
               srvPrice,
               opCalls, srvPhone, srvOrders >>

vars == << trackVars, menuVars >>

OrderStatus == {"NEW", "PREPARING", "OUT_FOR_DELIVERY", "DELIVERED", "CANCELED"}

IsTerminal(s) == s = "DELIVERED" \/ s = "CANCELED"

\* The order lifecycle the backend walks through (external API).
SrvNext(s) ==
    CASE s = "NONE" -> {"NEW"}
      [] s = "NEW" -> {"PREPARING", "CANCELED"}
      [] s = "PREPARING" -> {"OUT_FOR_DELIVERY", "CANCELED"}
      [] s = "OUT_FOR_DELIVERY" -> {"DELIVERED", "CANCELED"}
      [] OTHER -> {}

\* What GET /public/orders/{id} can answer while the backend is in state s:
\* 404 while the order is not indexed, the order otherwise; a 5xx answer or
\* a network failure at any time.
FetchResponses(s) ==
    (IF s = "NONE" THEN {"404"} ELSE {s}) \cup {"500", "neterr"}

\* err?.message || "Erro ao buscar pedido" for the two failures
ErrorMessage(resp) ==
    IF resp = "500" THEN "Erro 500" ELSE "Failed to fetch"

(***************************************************************************)
(* Order tracking page: operations.                                        *)
(***************************************************************************)
\* stopPolling(): clearTimeout(timerRef.current); timerRef.current = null
StopPollingTimers == IF timerRef # 0 THEN pendingTimers \ {timerRef} ELSE pendingTimers

NewTimerId(pending) == CHOOSE i \in 1..MaxTimers : i \notin pending

\* scheduleNext() without its stopPolling()
ScheduleNext_NoStop ==
    LET id == NewTimerId(pendingTimers)
    IN  /\ timerRef' = id
        /\ pendingTimers' = pendingTimers \cup {id}

\* scheduleNext(): stopPolling(); timerRef.current = setTimeout(fetchOrder, 4000)
ScheduleNext ==
    LET cleared == StopPollingTimers
        id == NewTimerId(cleared)
    IN  /\ timerRef' = id
        /\ pendingTimers' = cleared \cup {id}

\* stopPolling() as a whole step
StopPolling ==
    /\ pendingTimers' = StopPollingTimers
    /\ timerRef' = 0

\* fetchOrder() up to its first await: the request goes out
IssueFetch(via) ==
    /\ nFetch < MaxFetches
    /\ nFetch' = nFetch + 1
    /\ inflight' = inflight \cup {[id |-> nFetch + 1, resp |-> "sent", via |-> via]}

\* useEffect(() => { fetchOrder(); return stopPolling; }, [orderId])
Mount ==
    /\ ~mounted
    /\ nFetch = 0
    /\ mounted' = TRUE
    /\ IssueFetch("mount")
    /\ UNCHANGED << order, loading, error, attempt, timerRef, pendingTimers,
                    srvStatus, termSeen, okSeen, lastDone >>
    /\ UNCHANGED menuVars

\* the effect's cleanup: stopPolling
Unmount ==
    /\ mounted
    /\ mounted' = FALSE
    /\ StopPolling
    /\ UNCHANGED << order, loading, error, attempt, inflight, nFetch,
                    srvStatus, termSeen, okSeen, lastDone >>
    /\ UNCHANGED menuVars

\* the 4000 ms timer fires: fetchOrder() starts
TimerFires(t) ==
    /\ t \in pendingTimers
    /\ pendingTimers' = pendingTimers \ {t}
    /\ IssueFetch("timer")
    /\ UNCHANGED << order, loading, error, attempt, timerRef, srvStatus,
                    mounted, termSeen, okSeen, lastDone >>
    /\ UNCHANGED menuVars

\* the render with the error screen tested without `&& !order`
Screen_ErrorFirst ==
    IF loading /\ order = "null" THEN "waiting"
    ELSE IF error # "null" THEN "error"
    ELSE IF order = "null" THEN "blank"
    ELSE "order"

\* which screen the component renders
Screen ==
    IF loading /\ order = "null" THEN "waiting"
    ELSE IF error # "null" /\ order = "null" THEN "error"
    ELSE IF order = "null" THEN "blank"
    ELSE "order"

\* the "Atualizar agora"/"Tentar novamente" button is on screen
RefreshButtonShown ==
    \/ Screen = "waiting"
    \/ Screen = "error"
    \/ Screen = "order" /\ ~IsTerminal(order)

\* manualRefresh() without its stopPolling()
ManualRefresh_KeepsTimer ==
    /\ mounted
    /\ RefreshButtonShown
    /\ UNCHANGED << timerRef, pendingTimers >>
    /\ error' = "null"
    /\ loading' = TRUE
    /\ attempt' = attempt + 1
    /\ IssueFetch("manual")
    /\ UNCHANGED << order, srvStatus, mounted, termSeen, okSeen, lastDone >>
    /\ UNCHANGED menuVars

\* manualRefresh()
ManualRefresh ==
    /\ mounted
    /\ RefreshButtonShown
    /\ StopPolling
    /\ error' = "null"
    /\ loading' = TRUE
    /\ attempt' = attempt + 1
    /\ IssueFetch("manual")
    /\ UNCHANGED << order, srvStatus, mounted, termSeen, okSeen, lastDone >>
    /\ UNCHANGED menuVars

\* the backend (or the network) settles the answer of a request in flight
BackendAnswers(f) ==
    /\ f \in inflight
    /\ f.resp = "sent"
    /\ \E r \in FetchResponses(srvStatus) :
          inflight' = (inflight \ {f}) \cup {[f EXCEPT !.resp = r]}
    /\ UNCHANGED << order, loading, error, attempt, timerRef, pendingTimers,
                    nFetch, srvStatus, mounted, termSeen, okSeen, lastDone >>
    /\ UNCHANGED menuVars

\* the backend moves the order along its lifecycle
BackendAdvance ==
    /\ \E s \in SrvNext(srvStatus) : srvStatus' = s
    /\ UNCHANGED << order, loading, error, attempt, timerRef, pendingTimers,
                    inflight, nFetch, mounted, termSeen, okSeen, lastDone >>
    /\ UNCHANGED menuVars

\* fetchOrder() with the not-found answer handled like any other !res.ok
FetchOrderBody_NotFoundIsError(resp) ==
    IF resp \in OrderStatus THEN
        /\ order' = resp
        /\ loading' = FALSE
        /\ error' = "null"
        /\ IF IsTerminal(resp) THEN StopPolling ELSE ScheduleNext
        /\ UNCHANGED attempt
    ELSE
        /\ error' = ErrorMessage(resp)
        /\ loading' = FALSE
        /\ ScheduleNext
        /\ UNCHANGED << order, attempt >>

\* fetchOrder() whose catch also drops the held order
FetchOrderBody_ErrorClearsOrder(resp) ==
    IF resp = "404" THEN
        /\ attempt' = attempt + 1
        /\ loading' = FALSE
        /\ ScheduleNext
        /\ UNCHANGED << order, error >>
    ELSE IF resp \in OrderStatus THEN
        /\ order' = resp
        /\ loading' = FALSE
        /\ error' = "null"
        /\ IF IsTerminal(resp) THEN StopPolling ELSE ScheduleNext
        /\ UNCHANGED attempt
    ELSE
        /\ error' = ErrorMessage(resp)
        /\ order' = "null"
        /\ loading' = FALSE
        /\ ScheduleNext
        /\ UNCHANGED attempt

\* fetchOrder() whose catch does not call scheduleNext()
FetchOrderBody_ErrorStopsPolling(resp) ==
    IF resp = "404" THEN
        /\ attempt' = attempt + 1
        /\ loading' = FALSE
        /\ ScheduleNext
        /\ UNCHANGED << order, error >>
    ELSE IF resp \in OrderStatus THEN
        /\ order' = resp
        /\ loading' = FALSE
        /\ error' = "null"
        /\ IF IsTerminal(resp) THEN StopPolling ELSE ScheduleNext
        /\ UNCHANGED attempt
    ELSE
        /\ error' = ErrorMessage(resp)
        /\ loading' = FALSE
        /\ UNCHANGED << order, attempt, timerRef, pendingTimers >>

\* fetchOrder() after its await, for the answer resp
FetchOrderBody(resp) ==
    IF resp = "404" THEN
        /\ attempt' = attempt + 1
        /\ loading' = FALSE
        /\ ScheduleNext
        /\ UNCHANGED << order, error >>
    ELSE IF resp \in OrderStatus THEN
        /\ order' = resp
        /\ loading' = FALSE
        /\ error' = "null"
        /\ IF IsTerminal(resp) THEN StopPolling ELSE ScheduleNext
        /\ UNCHANGED attempt
    ELSE
        /\ error' = ErrorMessage(resp)
        /\ loading' = FALSE
        /\ ScheduleNext
        /\ UNCHANGED << order, attempt >>

\* a fetch in flight completes and the rest of fetchOrder() runs
FetchOrderDone(f) ==
    /\ f \in inflight
    /\ f.resp # "sent"
    /\ inflight' = inflight \ {f}
    /\ FetchOrderBody(f.resp)
    /\ termSeen' = (termSeen \/ IsTerminal(f.resp))
    /\ okSeen' = (okSeen \/ f.resp \in OrderStatus)
    /\ lastDone' = f.resp
    /\ UNCHANGED << nFetch, srvStatus, mounted >>
    /\ UNCHANGED menuVars

(***************************************************************************)
(* Menu page: pure helpers.                                                *)
(***************************************************************************)
Digits == {"0", "1", "2", "3", "4", "5", "6", "7", "8", "9"}

IsDigit(c) == c \in Digits

DigitVal(c) ==
    CASE c = "0" -> 0 [] c = "1" -> 1 [] c = "2" -> 2 [] c = "3" -> 3
      [] c = "4" -> 4 [] c = "5" -> 5 [] c = "6" -> 6 [] c = "7" -> 7
      [] c = "8" -> 8 [] c = "9" -> 9

Min(a, b) == IF a < b THEN a ELSE b

\* s.slice(from, to), zero-based, end exclusive
Slice(s, from, to) == SubSeq(s, from + 1, Min(to, Len(s)))

\* String(s || "").replace(/\D/g, "")
onlyDigits(s) == SelectSeq(s, IsDigit)

\* d.startsWith("55")
StartsWith55(d) == Len(d) >= 2 /\ d[1] = "5" /\ d[2] = "5"

\* "no link": the null sanitizePhoneForWhatsApp returns
NoLink == << >>

\* sanitizePhoneForWhatsApp with the country code put in front of every number
sanitizePhoneForWhatsApp_AlwaysPrefix(phone) ==
    LET d == onlyDigits(phone)
    IN  IF d = << >> THEN NoLink
        ELSE <<"5", "5">> \o d

\* sanitizePhoneForWhatsApp(phone)
sanitizePhoneForWhatsApp(phone) ==
    LET d == onlyDigits(phone)
    IN  IF d = << >> THEN NoLink
        ELSE IF StartsWith55(d) THEN d
        ELSE <<"5", "5">> \o d

\* formatPhoneBR(raw): "(99) 99999-9999"
formatPhoneBR(raw) ==
    LET d == Slice(onlyDigits(raw), 0, 11)
        n == Len(d)
    IN  IF n <= 2 THEN (IF n > 0 THEN <<"(">> \o d ELSE << >>)
        ELSE IF n <= 6 THEN
            <<"(">> \o Slice(d, 0, 2) \o <<")", " ">> \o Slice(d, 2, n)
        ELSE IF n <= 10 THEN
            <<"(">> \o Slice(d, 0, 2) \o <<")", " ">> \o Slice(d, 2, 6)
                \o <<"-">> \o Slice(d, 6, n)
        ELSE
            <<"(">> \o Slice(d, 0, 2) \o <<")", " ">> \o Slice(d, 2, 7)
                \o <<"-">> \o Slice(d, 7, n)

RECURSIVE TrimLeft(_)
TrimLeft(s) == IF s # << >> /\ Head(s) = " " THEN TrimLeft(Tail(s)) ELSE s

RECURSIVE TrimRight(_)
TrimRight(s) ==
    IF s # << >> /\ s[Len(s)] = " " THEN TrimRight(SubSeq(s, 1, Len(s) - 1)) ELSE s

\* s.trim()
Trim(s) == TrimRight(TrimLeft(s))

NotSpace(c) == c # " "

NotDot(c) == c # "."

\* index of the first c in s, 0 when there is none
IndexOf(s, c) ==
    IF \E i \in 1..Len(s) : s[i] = c
    THEN CHOOSE i \in 1..Len(s) : s[i] = c /\ \A j \in 1..(i - 1) : s[j] # c
    ELSE 0

\* s.replace("R$", ""): the first occurrence only
RemoveFirstRS(s) ==
    LET hits == {i \in 1..(Len(s) - 1) : s[i] = "R" /\ s[i + 1] = "$"}
    IN  IF hits = {} THEN s
        ELSE LET i == CHOOSE h \in hits : \A g \in hits : h <= g
             IN  SubSeq(s, 1, i - 1) \o SubSeq(s, i + 2, Len(s))

RECURSIVE IntVal(_)
IntVal(ds) ==
    IF ds = << >> THEN 0
    ELSE 10 * IntVal(SubSeq(ds, 1, Len(ds) - 1)) + DigitVal(ds[Len(ds)])

AllDigits(s) == \A i \in 1..Len(s) : IsDigit(s[i])

\* Math.round(0.d1d2d3... * 100) for the digits after the decimal point
FracCents(f) ==
    (IF Len(f) >= 1 THEN 10 * DigitVal(f[1]) ELSE 0)
    + (IF Len(f) >= 2 THEN DigitVal(f[2]) ELSE 0)
    + (IF Len(f) >= 3 /\ DigitVal(f[3]) >= 5 THEN 1 ELSE 0)

\* parseBRLToCents(input): the cents, or 0 for null (the code never returns 0:
\* cents <= 0 is null).  Number() is modelled on digits with an optional
\* decimal point; any other character gives NaN.
parseBRLToCents(input) ==
    LET raw == Trim(input)
        cleaned == SelectSeq(RemoveFirstRS(SelectSeq(raw, NotSpace)), NotDot)
        k == IndexOf(cleaned, ",")
        intPart == IF k = 0 THEN cleaned ELSE SubSeq(cleaned, 1, k - 1)
        frac == IF k = 0 THEN << >> ELSE SubSeq(cleaned, k + 1, Len(cleaned))
        finite == /\ AllDigits(intPart)
                  /\ AllDigits(frac)
                  /\ ~(k # 0 /\ intPart = << >> /\ frac = << >>)
    IN  IF raw = << >> THEN 0
        ELSE IF ~finite THEN 0
        ELSE 100 * IntVal(intPart) + FracCents(frac)

\* msg.includes(pat), on words
Includes(msg, pat) ==
    \E i \in 1..(Len(msg) - Len(pat) + 1) : SubSeq(msg, i, i + Len(pat) - 1) = pat

\* postWithRetry's classification of a failure by its message
isRetryable(msg) ==
    \/ Includes(msg, <<"aborted">>)
    \/ Includes(msg, <<"AbortError">>)
    \/ Includes(msg, <<"Network", "request", "failed">>)
    \/ Includes(msg, <<"Failed", "to", "fetch">>)

\* postWithRetry(url, body, 2): the number of tries finalizeOrder asks for
Tries == 2

\* the loop with its bound off by one
LoopContinues_OneMore(attemptNo) == attemptNo <= Tries

\* for (attempt = 1; attempt <= tries; attempt++): the loop goes round again
LoopContinues(attemptNo) == attemptNo + 1 <= Tries

\* err.message of a fetch() rejected by controller.abort() after 20 s
AbortMessage(b) ==
    IF b = "chrome" THEN <<"signal", "is", "aborted", "without", "reason">>
    ELSE <<"The", "operation", "was", "aborted", ".">>

\* err.message of a fetch() rejected by a network failure
NetworkMessage(b) ==
    IF b = "chrome" THEN <<"Failed", "to", "fetch">>
    ELSE <<"NetworkError", "when", "attempting", "to", "fetch", "resource", ".">>

\* new Error(`Erro (${res.status}): ${txt}`)
HttpErrorMessage(status, txt) == <<"Erro", "(", status, ")", ":">> \o txt

(***************************************************************************)
(* Menu page: inputs of the model.                                         *)
(***************************************************************************)
ProductIds == {"A", "B"}

\* priceCents of the two products of the backend's catalog
Price == [A |-> 500, B |-> 300]

\* what the user types into the name, phone, address and change-for inputs
NameInputs == { <<" ">>, <<"A", "n", "a">> }

PhoneInputs ==
    { <<"1", "1", "9", "9", "9", "9", "9", "9", "9">>,
      <<"(", "1", "1", ")", " ", "9", "9", "9", "9", "-", "9", "9", "9", "9">> }

AddressInputs == { <<"R", "u", "a", " ", "1">> }

PaymentInputs == {"PIX", "CARD_DEBIT", "CASH"}

CashInputs ==
    { <<"5">>, <<"8">>, <<"R", "$", " ", "1", "3", ",", "0", "0">>, <<"a", "b", "c">> }

\* the price changes of the backend's catalog the model follows
PriceChanges == { <<"A", 700>> }

\* the product records GET /restaurants/{id}/products can carry
PricesOf(p) == {Price[p]} \cup {ch[2] : ch \in {x \in PriceChanges : x[1] = p}}

ProductRecords ==
    UNION { { [id |-> p, priceCents |-> c, active |-> a] :
                c \in PricesOf(p), a \in BOOLEAN } : p \in ProductIds }

\* the catalogs it can carry: at most one record per product id
Catalogs ==
    { f \in SUBSET ProductRecords : \A x \in f, y \in f : x.id = y.id => x = y }

\* the changes of the backend's catalog the model follows
CatalogChanges == { <<"B", "inactive">>, <<"B", "active">> }

\* response bodies of a rejected create-order request
ErrorBodies == { << >>, <<"Invalid", "items">>, <<"Transaction", "aborted">> }

ErrorStatuses == {"400", "500"}

Toast(type, msg, arg) == [type |-> type, msg |-> msg, arg |-> arg]

\* toast === null
NoToast == Toast("none", << >>, 0)

\* no addProduct/removeProduct call counted
NoCount == [p \in ProductIds |-> [add |-> 0, remove |-> 0, noop |-> 0]]

LastOp(op, p, f, before) ==
    [op |-> op, product |-> p, catalog |-> f, before |-> before]

NoProduct == [id |-> "none", priceCents |-> 0, active |-> FALSE]

NoCalls == [count |-> NoCount, last |-> LastOp("none", NoProduct, {}, {})]

\* restaurant === null
\* no order created yet from the submission on record
NoOrders == [count |-> 0, cur |-> FALSE]

\* the characters the restaurant's phone is written with
PhoneChars == {"5", "1", "+", " "}

\* the phones the backend may hold, << >> for null or ""
PhoneStrings == UNION {[1..n -> PhoneChars] : n \in 0..MaxPhoneLen}

NoRestaurant == [loaded |-> FALSE, isOpen |-> FALSE, phone |-> << >>]

(***************************************************************************)
(* Menu page: cart.                                                        *)
(***************************************************************************)
HasEntry(c, id) == \E e \in c : e.id = id

EntryOf(c, id) == CHOOSE e \in c : e.id = id

QtyOf(c, id) == IF HasEntry(c, id) THEN EntryOf(c, id).qty ELSE 0

\* { ...prev, [id]: { product, qty } }
CartPut(c, id, prod, qty) ==
    {e \in c : e.id # id} \cup {[id |-> id, product |-> prod, qty |-> qty]}

\* delete copy[id]
CartDelete(c, id) == {e \in c : e.id # id}

\* the reduce of totalCents adding each line's price once
RECURSIVE SumCents_NoQty(_)
SumCents_NoQty(items) ==
    IF items = {} THEN 0
    ELSE LET e == CHOOSE x \in items : TRUE
         IN  e.product.priceCents + SumCents_NoQty(items \ {e})

RECURSIVE SumCents(_)
SumCents(items) ==
    IF items = {} THEN 0
    ELSE LET e == CHOOSE x \in items : TRUE
         IN  e.product.priceCents * e.qty + SumCents(items \ {e})

\* const totalCents = useMemo(...)
totalCents == SumCents(cart)

\* addProduct(p) without the check of p.active
addProduct_NoActiveCheck(c, p) == CartPut(c, p.id, p, QtyOf(c, p.id) + 1)

\* addProduct(p) applied to the cart c
addProduct(c, p) ==
    IF ~p.active THEN c
    ELSE CartPut(c, p.id, p, QtyOf(c, p.id) + 1)

\* removeProduct(p) deleting the entry only below quantity 0
removeProduct_KeepsZero(c, p) ==
    IF ~HasEntry(c, p.id) THEN c
    ELSE IF EntryOf(c, p.id).qty - 1 < 0 THEN CartDelete(c, p.id)
    ELSE CartPut(c, p.id, p, EntryOf(c, p.id).qty - 1)

\* removeProduct(p) applied to the cart c
removeProduct(c, p) ==
    IF ~HasEntry(c, p.id) THEN c
    ELSE IF EntryOf(c, p.id).qty - 1 <= 0 THEN CartDelete(c, p.id)
    ELSE CartPut(c, p.id, p, EntryOf(c, p.id).qty - 1)

\* the updater keeping the entries of inactive products
syncCartWithProducts_KeepsInactive(c, nextProducts) ==
    { [e EXCEPT !.product = CHOOSE p \in nextProducts : p.id = e.id] :
        e \in {x \in c : \E p \in nextProducts : p.id = x.id} }

\* the setCart updater of syncCartWithProducts(nextProducts)
syncCartWithProducts(c, nextProducts) ==
    { [e EXCEPT !.product = CHOOSE p \in nextProducts : p.id = e.id] :
        e \in {x \in c : \E p \in nextProducts : p.id = x.id /\ p.active} }

\* GET /restaurants/{id}/products answered 200: the backend's catalog
FreshProducts ==
    { [id |-> p, priceCents |-> srvPrice[p], active |-> (srvCatalog[p] = "active")] :
        p \in {q \in ProductIds : srvCatalog[q] # "absent"} }

(***************************************************************************)
(* Menu page: validation.                                                  *)
(***************************************************************************)
\* validateCustomer() accepting a nine-digit phone
validateCustomer_ShortPhone ==
    (IF Trim(customerName) = << >> THEN <<"Nome">> ELSE << >>)
    \o (IF Len(onlyDigits(customerPhone)) < 9 THEN <<"Telefone valido">> ELSE << >>)
    \o (IF Trim(customerAddress) = << >> THEN <<"Endereco">> ELSE << >>)

\* validateCustomer(): the msg of each error, in order
validateCustomer ==
    (IF Trim(customerName) = << >> THEN <<"Nome">> ELSE << >>)
    \o (IF Len(onlyDigits(customerPhone)) < 10 THEN <<"Telefone valido">> ELSE << >>)
    \o (IF Trim(customerAddress) = << >> THEN <<"Endereco">> ELSE << >>)

\* the comparison rejecting a change-for amount equal to the total
ChangeTooSmall_OrEqual(changeForCents, total) == changeForCents <= total

\* changeForCents < totalCents
ChangeTooSmall(changeForCents, total) == changeForCents < total

\* validatePayment(totalCents): the error toast, or NoToast for null
validatePayment(total) ==
    IF paymentMethod # "CASH" THEN NoToast
    ELSE IF Trim(cashChangeFor) = << >> THEN NoToast
    ELSE IF parseBRLToCents(cashChangeFor) = 0 THEN
        Toast("error", <<"Informe o valor do troco (ex: 50,00) ou deixe em branco.">>, 0)
    ELSE IF ChangeTooSmall(parseBRLToCents(cashChangeFor), total) THEN
        Toast("error", <<"Troco invalido. O valor precisa ser maior ou igual ao total">>,
              total)
    ELSE NoToast

\* the checks with the customer fields looked at before the cart
ValidationToast_CustomerFirst ==
    IF ~restaurant.loaded THEN
        Toast("error", <<"Cardapio ainda nao carregou.">>, 0)
    ELSE IF ~restaurant.isOpen THEN
        Toast("error", <<"Restaurante esta fechado no momento.">>, 0)
    ELSE IF validateCustomer # << >> THEN
        Toast("error", <<"Preencha:">> \o validateCustomer, 0)
    ELSE IF cart = {} THEN
        Toast("error", <<"Seu carrinho esta vazio.">>, 0)
    ELSE validatePayment(totalCents)

\* finalizeOrder(), lines 397-422: the toast of the first check that fails,
\* NoToast when all pass
ValidationToast ==
    IF ~restaurant.loaded THEN
        Toast("error", <<"Cardapio ainda nao carregou.">>, 0)
    ELSE IF ~restaurant.isOpen THEN
        Toast("error", <<"Restaurante esta fechado no momento.">>, 0)
    ELSE IF cart = {} THEN
        Toast("error", <<"Seu carrinho esta vazio.">>, 0)
    ELSE IF validateCustomer # << >> THEN
        Toast("error", <<"Preencha:">> \o validateCustomer, 0)
    ELSE validatePayment(totalCents)

(***************************************************************************)
(* Menu page: operations.                                                  *)
(***************************************************************************)
\* the document has not been left: window.location.href was not assigned
PageLive == navTo = "none"

\* the menu (not the loading or the load-error screen) is rendered
MenuShown == ~loadingFirst /\ loadError = "null" /\ restaurant.loaded

\* const waPhone = restaurant.phone ? sanitizePhoneForWhatsApp(restaurant.phone) : null
waPhone ==
    IF restaurant.phone # << >> THEN sanitizePhoneForWhatsApp(restaurant.phone)
    ELSE NoLink

\* the "Nao foi possivel carregar" screen: if (loadError || !restaurant)
LoadErrorScreen == ~loadingFirst /\ (loadError # "null" \/ ~restaurant.loaded)

NoPayload ==
    [customerName |-> << >>, customerPhone |-> << >>, customerAddress |-> << >>,
     paymentMethod |-> "PIX", cashChangeForCents |-> 0, items |-> {}]

\* no finalizeOrder() is running
IdleSub ==
    [pc |-> "idle", cartItems |-> {}, customerName |-> << >>,
     customerPhone |-> << >>, customerAddress |-> << >>, paymentMethod |-> "PIX",
     cashChangeFor |-> << >>, attemptNo |-> 0, lastError |-> << >>,
     payload |-> NoPayload]

formVars == << customerName, customerPhone, customerAddress, paymentMethod,
               cashChangeFor >>

backendVars == << srvOpen, srvCatalog, srvPrice, srvPhone >>

histVars == << postLog, netCalls, opCalls, srvOrders >>

loadVars == << restaurant, products, loadingFirst, loadError, loadPc,
              isFetchingRef, nRefresh >>

\* the "Adicionar"/"+" buttons: active products of the list, lines of the drawer
AddProduct(p) ==
    /\ PageLive
    /\ MenuShown
    /\ p \in {q \in products : q.active} \cup {e.product : e \in cart}
    /\ QtyOf(cart, p.id) < MaxQty
    /\ cart' = addProduct(cart, p)
    /\ UNCHANGED << loadVars, formVars, isSubmitting, toast, sub, navTimer, navTo,
                    browser, backendVars, histVars >>
    /\ UNCHANGED trackVars

\* the "-" buttons: products of the list that are in the cart, lines of the drawer
RemoveProduct(p) ==
    /\ PageLive
    /\ MenuShown
    /\ p \in {q \in products : q.active /\ HasEntry(cart, q.id)}
             \cup {e.product : e \in cart}
    /\ cart' = removeProduct(cart, p)
    /\ UNCHANGED << loadVars, formVars, isSubmitting, toast, sub, navTimer, navTo,
                    browser, backendVars, histVars >>
    /\ UNCHANGED trackVars

\* clearCart(), the "Limpar" button (disabled on an empty cart)
ClearCart ==
    /\ PageLive
    /\ MenuShown
    /\ cart # {}
    /\ cart' = {}
    /\ UNCHANGED << loadVars, formVars, isSubmitting, toast, sub, navTimer, navTo,
                    browser, backendVars, histVars >>
    /\ UNCHANGED trackVars

\* the form inputs
SetCustomerName(v) ==
    /\ PageLive
    /\ MenuShown
    /\ customerName' = v
    /\ UNCHANGED << loadVars, cart, customerPhone, customerAddress, paymentMethod,
                    cashChangeFor, isSubmitting, toast, sub, navTimer, navTo,
                    browser, backendVars, histVars >>
    /\ UNCHANGED trackVars

\* onChange: setCustomerPhone(formatPhoneBR(e.target.value))
SetCustomerPhone(raw) ==
    /\ PageLive
    /\ MenuShown
    /\ customerPhone' = formatPhoneBR(raw)
    /\ UNCHANGED << loadVars, cart, customerName, customerAddress, paymentMethod,
                    cashChangeFor, isSubmitting, toast, sub, navTimer, navTo,
                    browser, backendVars, histVars >>
    /\ UNCHANGED trackVars

SetCustomerAddress(v) ==
    /\ PageLive
    /\ MenuShown
    /\ customerAddress' = v
    /\ UNCHANGED << loadVars, cart, customerName, customerPhone, paymentMethod,
                    cashChangeFor, isSubmitting, toast, sub, navTimer, navTo,
                    browser, backendVars, histVars >>
    /\ UNCHANGED trackVars

SetPaymentMethod(pm) ==
    /\ PageLive
    /\ MenuShown
    /\ paymentMethod' = pm
    /\ UNCHANGED << loadVars, cart, customerName, customerPhone, customerAddress,
                    cashChangeFor, isSubmitting, toast, sub, navTimer, navTo,
                    browser, backendVars, histVars >>
    /\ UNCHANGED trackVars

\* the change-for input is rendered only for CASH
SetCashChangeFor(v) ==
    /\ PageLive
    /\ MenuShown
    /\ paymentMethod = "CASH"
    /\ cashChangeFor' = v
    /\ UNCHANGED << loadVars, cart, customerName, customerPhone, customerAddress,
                    paymentMethod, isSubmitting, toast, sub, navTimer, navTo,
                    browser, backendVars, histVars >>
    /\ UNCHANGED trackVars

\* the toast's 3200 ms timer.  The history of a submission that has ended is
\* dropped with the toast that reported its end.
ToastExpires ==
    /\ PageLive
    /\ toast # NoToast
    /\ toast' = NoToast
    /\ postLog' = (IF sub.pc = "idle" THEN << >> ELSE postLog)
    /\ netCalls' = (IF sub.pc = "idle" THEN << >> ELSE netCalls)
    /\ srvOrders' = (IF sub.pc = "idle" THEN NoOrders ELSE srvOrders)
    /\ UNCHANGED opCalls
    /\ UNCHANGED << loadVars, cart, formVars, isSubmitting, sub, navTimer, navTo,
                    browser, backendVars >>
    /\ UNCHANGED trackVars

\* finalizeOrder() without `if (isSubmitting) return`
FinalizeOrder_NoSubmittingCheck ==
    /\ PageLive
    /\ MenuShown
    /\ IF ValidationToast # NoToast THEN
          /\ toast' = ValidationToast
          /\ UNCHANGED << isSubmitting, sub, histVars >>
       ELSE
          /\ isSubmitting' = TRUE
          /\ toast' = Toast("info", <<"Enviando pedido...">>, 0)
          /\ sub' = [IdleSub EXCEPT
                        !.pc = "fetchProducts",
                        !.cartItems = cart,
                        !.customerName = customerName,
                        !.customerPhone = customerPhone,
                        !.customerAddress = customerAddress,
                        !.paymentMethod = paymentMethod,
                        !.cashChangeFor = cashChangeFor]
          /\ postLog' = << >>
          /\ netCalls' = <<"GET products">>
          /\ srvOrders' = NoOrders
          /\ UNCHANGED opCalls
    /\ UNCHANGED << loadVars, cart, formVars, navTimer, navTo, browser,
                    backendVars >>
    /\ UNCHANGED trackVars

\* finalizeOrder() up to its first await.  The handler is taken as callable
\* whenever the menu is rendered: it re-checks itself what the button's
\* disabled attribute (isSubmitting, empty cart) covers.
FinalizeOrder ==
    /\ PageLive
    /\ MenuShown
    /\ IF ValidationToast # NoToast THEN
          /\ toast' = ValidationToast
          /\ UNCHANGED << isSubmitting, sub, histVars >>
       ELSE IF isSubmitting THEN
          UNCHANGED << toast, isSubmitting, sub, histVars >>
       ELSE
          /\ isSubmitting' = TRUE
          /\ toast' = Toast("info", <<"Enviando pedido...">>, 0)
          /\ sub' = [IdleSub EXCEPT
                        !.pc = "fetchProducts",
                        !.cartItems = cart,
                        !.customerName = customerName,
                        !.customerPhone = customerPhone,
                        !.customerAddress = customerAddress,
                        !.paymentMethod = paymentMethod,
                        !.cashChangeFor = cashChangeFor]
          /\ postLog' = << >>
          /\ netCalls' = <<"GET products">>
          /\ srvOrders' = NoOrders
          /\ UNCHANGED opCalls
    /\ UNCHANGED << loadVars, cart, formVars, navTimer, navTo, browser,
                    backendVars >>
    /\ UNCHANGED trackVars

\* safeItems: the cart lines whose product is present and active in fresh
SafeItems(cartItems, fresh) ==
    { [id |-> i.id, product |-> CHOOSE p \in fresh : p.id = i.id, qty |-> i.qty] :
        i \in {x \in cartItems : \E p \in fresh : p.id = x.id /\ p.active} }

\* the create-order payload, lines 465-479
Payload(safe) ==
    [customerName |-> Trim(sub.customerName),
     customerPhone |-> Trim(sub.customerPhone),
     customerAddress |-> Trim(sub.customerAddress),
     paymentMethod |-> sub.paymentMethod,
     cashChangeForCents |->
        IF sub.paymentMethod = "CASH" THEN parseBRLToCents(sub.cashChangeFor) ELSE 0,
     items |-> {[productId |-> i.product.id, quantity |-> i.qty] : i \in safe}]

\* catch (e) { showToast("error", e.message) } finally { setIsSubmitting(false) }
SubFails(msg) ==
    /\ toast' = Toast("error", msg, 0)
    /\ isSubmitting' = FALSE
    /\ sub' = IdleSub

\* finalizeOrder() from the answer of fetchProducts() to the first
\* create-order request (or to its return)
SubFetchProductsDone(outcome) ==
    /\ PageLive
    /\ sub.pc = "fetchProducts"
    /\ IF outcome = "neterr" THEN
          /\ SubFails(NetworkMessage(browser))
          /\ UNCHANGED << cart, netCalls >>
       ELSE
          LET fresh == IF outcome = "ok" THEN FreshProducts ELSE {}
              safe == SafeItems(sub.cartItems, fresh)
          IN  IF safe = {} THEN
                 /\ cart' = {}
                 /\ toast' = Toast("error", <<"Os itens do carrinho ficaram indisponiveis. Selecione novamente.">>, 0)
                 /\ isSubmitting' = FALSE
                 /\ sub' = IdleSub
                 /\ UNCHANGED netCalls
              ELSE IF Cardinality(safe) # Cardinality(sub.cartItems) THEN
                 /\ cart' = safe
                 /\ toast' = Toast("info", <<"Alguns itens ficaram indisponiveis e foram removidos do carrinho.">>, 0)
                 /\ isSubmitting' = FALSE
                 /\ sub' = IdleSub
                 /\ UNCHANGED netCalls
              ELSE
                 /\ sub' = [sub EXCEPT !.pc = "post", !.attemptNo = 1,
                                       !.payload = Payload(safe)]
                 /\ netCalls' = Append(netCalls, "POST orders")
                 /\ UNCHANGED << cart, toast, isSubmitting >>
    /\ UNCHANGED << loadVars, formVars, navTimer, navTo, browser, backendVars,
                    postLog, opCalls, srvOrders >>
    /\ UNCHANGED trackVars

PostResult(kind, orderId, status, body) ==
    [kind |-> kind, orderId |-> orderId, status |-> status, body |-> body]

\* how one create-order request can end: answered OK (with or without an
\* orderId field), rejected, failed on the network, aborted after 20 s
PostOutcomes ==
    {PostResult("ok", o, "200", << >>) : o \in {"o1", "none"}}
    \cup {PostResult("nonok", "none", st, b) : st \in ErrorStatuses, b \in ErrorBodies}
    \cup {PostResult("neterr", "none", "none", << >>),
          PostResult("timeout", "none", "none", << >>)}

\* the message of the error postWithRetry catches for the outcome r
PostErrorMessage(r) ==
    IF r.kind = "nonok" THEN HttpErrorMessage(r.status, r.body)
    ELSE IF r.kind = "timeout" THEN AbortMessage(browser)
    ELSE NetworkMessage(browser)

\* the success path without the redirect to the tracking page
SubSucceeds_NoRedirect(orderId) ==
    /\ toast' = Toast("success", <<"Pedido enviado com sucesso">>, 0)
    /\ cart' = {}
    /\ customerName' = << >>
    /\ customerPhone' = << >>
    /\ customerAddress' = << >>
    /\ paymentMethod' = "PIX"
    /\ cashChangeFor' = << >>
    /\ navTimer' = navTimer
    /\ isSubmitting' = FALSE
    /\ sub' = IdleSub

\* the success path leaving the customer fields as they are
SubSucceeds_KeepsCustomer(orderId) ==
    /\ toast' = Toast("success", <<"Pedido enviado com sucesso">>, 0)
    /\ cart' = {}
    /\ UNCHANGED << customerName, customerPhone, customerAddress >>
    /\ paymentMethod' = "PIX"
    /\ cashChangeFor' = << >>
    /\ navTimer' = (IF orderId # "none" THEN orderId ELSE navTimer)
    /\ isSubmitting' = FALSE
    /\ sub' = IdleSub

\* finalizeOrder() after postWithRetry returned res, lines 483-509
SubSucceeds(orderId) ==
    /\ toast' = Toast("success", <<"Pedido enviado com sucesso">>, 0)
    /\ cart' = {}
    /\ customerName' = << >>
    /\ customerPhone' = << >>
    /\ customerAddress' = << >>
    /\ paymentMethod' = "PIX"
    /\ cashChangeFor' = << >>
    /\ navTimer' = (IF orderId # "none" THEN orderId ELSE navTimer)
    /\ isSubmitting' = FALSE
    /\ sub' = IdleSub

\* the backend handles the create-order request in flight and stores the
\* order; its answer has not reached the page yet
BackendCreatesOrder ==
    /\ PageLive
    /\ sub.pc = "post"
    /\ ~srvOrders.cur
    /\ srvOrders' = [count |-> srvOrders.count + 1, cur |-> TRUE]
    /\ UNCHANGED << loadVars, cart, formVars, isSubmitting, toast, sub, navTimer,
                    navTo, browser, backendVars, postLog, netCalls, opCalls >>
    /\ UNCHANGED trackVars

\* the end of a create-order request with the cart emptied on failure too
SubPostDone_FailureClears(r) ==
    /\ PageLive
    /\ sub.pc = "post"
    /\ r.kind = "nonok" => ~srvOrders.cur
    /\ postLog' = Append(postLog, r)
    /\ srvOrders' = [count |-> IF r.kind = "ok" /\ ~srvOrders.cur
                               THEN srvOrders.count + 1 ELSE srvOrders.count,
                     cur |-> FALSE]
    /\ IF r.kind = "ok" THEN
          SubSucceeds(r.orderId)
       ELSE IF isRetryable(PostErrorMessage(r)) THEN
          /\ sub' = [sub EXCEPT !.pc = "retryWait",
                                !.lastError = PostErrorMessage(r)]
          /\ UNCHANGED << cart, formVars, toast, isSubmitting, navTimer >>
       ELSE
          /\ SubFails(PostErrorMessage(r))
          /\ cart' = {}
          /\ UNCHANGED << formVars, navTimer >>
    /\ UNCHANGED << loadVars, navTo, browser, backendVars, netCalls, opCalls >>
    /\ UNCHANGED trackVars

\* one create-order request of postWithRetry ends with r
SubPostDone(r) ==
    /\ PageLive
    /\ sub.pc = "post"
    /\ r.kind = "nonok" => ~srvOrders.cur
    /\ postLog' = Append(postLog, r)
    /\ srvOrders' = [count |-> IF r.kind = "ok" /\ ~srvOrders.cur
                               THEN srvOrders.count + 1 ELSE srvOrders.count,
                     cur |-> FALSE]
    /\ IF r.kind = "ok" THEN
          SubSucceeds(r.orderId)
       ELSE IF isRetryable(PostErrorMessage(r)) THEN
          /\ sub' = [sub EXCEPT !.pc = "retryWait",
                                !.lastError = PostErrorMessage(r)]
          /\ UNCHANGED << cart, formVars, toast, isSubmitting, navTimer >>
       ELSE
          /\ SubFails(PostErrorMessage(r))
          /\ UNCHANGED << cart, formVars, navTimer >>
    /\ UNCHANGED << loadVars, navTo, browser, backendVars, netCalls, opCalls >>
    /\ UNCHANGED trackVars

\* the 800 ms wait after a retryable failure is over: the loop goes round
\* again, or ends and lastError is thrown
SubRetryWaitDone ==
    /\ PageLive
    /\ sub.pc = "retryWait"
    /\ IF LoopContinues(sub.attemptNo) THEN
          /\ sub' = [sub EXCEPT !.pc = "post", !.attemptNo = sub.attemptNo + 1]
          /\ netCalls' = Append(netCalls, "POST orders")
          /\ UNCHANGED << toast, isSubmitting >>
       ELSE
          /\ SubFails(sub.lastError)
          /\ UNCHANGED netCalls
    /\ UNCHANGED << loadVars, cart, formVars, navTimer, navTo, browser,
                    backendVars, postLog, opCalls,
                    srvOrders >>
    /\ UNCHANGED trackVars

\* the 500 ms timer set on success: window.location.href = `/pedido/${orderId}`
NavTimerFires ==
    /\ PageLive
    /\ navTimer # "none"
    /\ navTo' = navTimer
    /\ navTimer' = "none"
    /\ UNCHANGED << loadVars, cart, formVars, isSubmitting, toast, sub, browser,
                    backendVars, histVars >>
    /\ UNCHANGED trackVars

\* loadFirstTime() after Promise.all settled.  The toast of
\* syncCartWithProducts depends on whether React ran the setCart updater
\* before `if (changed)` is read (eager) or defers it to the next render.
LoadFirstTimeDone(rOk, pOutcome, eager) ==
    /\ PageLive
    /\ loadPc = "inflight"
    /\ loadPc' = "idle"
    /\ loadingFirst' = FALSE
    /\ IF ~rOk \/ pOutcome = "neterr" THEN
          /\ loadError' = (IF ~rOk THEN "Erro ao carregar restaurante"
                           ELSE "Failed to fetch")
          /\ UNCHANGED << restaurant, products, cart, toast >>
       ELSE
          LET p == IF pOutcome = "ok" THEN FreshProducts ELSE {}
          IN  /\ restaurant' = [loaded |-> TRUE, isOpen |-> srvOpen, phone |-> srvPhone]
              /\ products' = p
              /\ cart' = syncCartWithProducts(cart, p)
              /\ toast' = (IF eager /\ syncCartWithProducts(cart, p) # cart
                              /\ Cardinality(syncCartWithProducts(cart, p))
                                    # Cardinality(cart)
                           THEN Toast("info", <<"Alguns itens ficaram indisponiveis e foram removidos do carrinho.">>, 0)
                           ELSE toast)
              /\ UNCHANGED loadError
    /\ UNCHANGED << formVars, isSubmitting, sub, navTimer, navTo, browser,
                    backendVars, histVars, isFetchingRef, nRefresh >>
    /\ UNCHANGED trackVars

\* the retry without the setLoadError(null) of loadFirstTime()
RetryLoad_KeepsError ==
    /\ PageLive
    /\ ~loadingFirst
    /\ loadError # "null" \/ ~restaurant.loaded
    /\ loadPc = "idle"
    /\ loadingFirst' = TRUE
    /\ loadPc' = "inflight"
    /\ UNCHANGED << restaurant, products, loadError, cart, formVars, isSubmitting,
                    toast, sub, navTimer, navTo, browser, backendVars, histVars,
                    isFetchingRef, nRefresh >>
    /\ UNCHANGED trackVars

\* the "Tentar novamente" button of the load-error screen: loadFirstTime()
RetryLoad ==
    /\ PageLive
    /\ ~loadingFirst
    /\ loadError # "null" \/ ~restaurant.loaded
    /\ loadPc = "idle"
    /\ loadingFirst' = TRUE
    /\ loadError' = "null"
    /\ loadPc' = "inflight"
    /\ UNCHANGED << restaurant, products, cart, formVars, isSubmitting, toast, sub,
                    navTimer, navTo, browser, backendVars, histVars,
                    isFetchingRef, nRefresh >>
    /\ UNCHANGED trackVars

\* refreshSilent() without `if (isFetchingRef.current) return`
RefreshSilent_NoGuard ==
    /\ PageLive
    /\ isFetchingRef' = TRUE
    /\ nRefresh' = nRefresh + 1
    /\ UNCHANGED << restaurant, products, loadingFirst, loadError, loadPc, cart,
                    formVars, isSubmitting, toast, sub, navTimer, navTo, browser,
                    backendVars, histVars >>
    /\ UNCHANGED trackVars

\* refreshSilent() up to its await: the 15 s interval set at mount, or the
\* "Atualizar" button; a call made while one is running returns at once
RefreshSilent ==
    /\ PageLive
    /\ ~isFetchingRef
    /\ isFetchingRef' = TRUE
    /\ nRefresh' = nRefresh + 1
    /\ UNCHANGED << restaurant, products, loadingFirst, loadError, loadPc, cart,
                    formVars, isSubmitting, toast, sub, navTimer, navTo, browser,
                    backendVars, histVars >>
    /\ UNCHANGED trackVars

RemovedToast ==
    Toast("info", <<"Alguns itens ficaram indisponiveis e foram removidos do carrinho.">>, 0)

\* refreshSilent() after Promise.all settled.  As in loadFirstTime(), the
\* toast of syncCartWithProducts depends on whether the setCart updater has
\* run when `if (changed)` is read (eager) or runs at the next render.
RefreshSilentDone(rOk, pOutcome, eager) ==
    /\ PageLive
    /\ nRefresh > 0
    /\ nRefresh' = nRefresh - 1
    /\ isFetchingRef' = FALSE
    /\ IF ~rOk \/ pOutcome = "neterr" THEN
          UNCHANGED << restaurant, products, cart, toast >>
       ELSE
          LET p == IF pOutcome = "ok" THEN FreshProducts ELSE {}
          IN  /\ restaurant' = [loaded |-> TRUE, isOpen |-> srvOpen, phone |-> srvPhone]
              /\ products' = p
              /\ cart' = syncCartWithProducts(cart, p)
              /\ toast' = (IF eager /\ Cardinality(syncCartWithProducts(cart, p))
                                         # Cardinality(cart)
                           THEN RemovedToast
                           ELSE toast)
    /\ UNCHANGED << loadingFirst, loadError, loadPc, formVars, isSubmitting, sub,
                    navTimer, navTo, browser, backendVars, histVars >>
    /\ UNCHANGED trackVars

\* the backend opens or closes the restaurant
BackendSetOpen ==
    /\ srvOpen' = ~srvOpen
    /\ UNCHANGED << loadVars, cart, formVars, isSubmitting, toast, sub, navTimer,
                    navTo, browser, srvCatalog, srvPrice, srvPhone, histVars >>
    /\ UNCHANGED trackVars

\* the backend's catalog changes: a product is deactivated, removed, restored
BackendSetCatalog(p, st) ==
    /\ srvCatalog[p] # st
    /\ srvCatalog' = [srvCatalog EXCEPT ![p] = st]
    /\ UNCHANGED << loadVars, cart, formVars, isSubmitting, toast, sub, navTimer,
                    navTo, browser, srvOpen, srvPrice, srvPhone, histVars >>
    /\ UNCHANGED trackVars

\* the backend changes a product's price
BackendSetPrice(p, c) ==
    /\ srvPrice[p] # c
    /\ srvPrice' = [srvPrice EXCEPT ![p] = c]
    /\ UNCHANGED << loadVars, cart, formVars, isSubmitting, toast, sub, navTimer,
                    navTo, browser, srvOpen, srvCatalog, srvPhone, histVars >>
    /\ UNCHANGED trackVars

(***************************************************************************)
(* Menu page: the cart operations on their own, applied in any order to    *)
(* any product record and any catalog.                                     *)
(***************************************************************************)
nonCartVars == << loadVars, formVars, isSubmitting, toast, sub, navTimer, navTo,
                  browser, backendVars, postLog, netCalls, srvOrders >>

CallsOf(id) == opCalls.count[id].add + opCalls.count[id].remove

\* addProduct(p)
CartAdd(p) ==
    /\ CallsOf(p.id) < MaxCalls
    /\ cart' = addProduct(cart, p)
    /\ opCalls' = [count |-> IF p.active
                             THEN [opCalls.count EXCEPT ![p.id].add = @ + 1]
                             ELSE opCalls.count,
                   last |-> LastOp("add", p, {}, cart)]
    /\ UNCHANGED nonCartVars
    /\ UNCHANGED trackVars

\* removeProduct(p)
CartRemove(p) ==
    /\ CallsOf(p.id) < MaxCalls
    /\ cart' = removeProduct(cart, p)
    /\ opCalls' = [count |-> [opCalls.count EXCEPT
                                ![p.id].remove = @ + 1,
                                ![p.id].noop =
                                    IF HasEntry(cart, p.id) THEN @ ELSE @ + 1],
                   last |-> LastOp("remove", p, {}, cart)]
    /\ UNCHANGED nonCartVars
    /\ UNCHANGED trackVars

\* clearCart()
CartClear ==
    /\ cart' = {}
    /\ opCalls' = [count |-> NoCount, last |-> LastOp("clear", NoProduct, {}, cart)]
    /\ UNCHANGED nonCartVars
    /\ UNCHANGED trackVars

\* the setCart updater of syncCartWithProducts(nextProducts)
CartReconcile(nextProducts) ==
    /\ cart' = syncCartWithProducts(cart, nextProducts)
    /\ opCalls' = [count |-> [id \in ProductIds |->
                                IF HasEntry(cart, id) /\ ~HasEntry(cart', id)
                                THEN NoCount[id] ELSE opCalls.count[id]],
                   last |-> LastOp("reconcile", NoProduct, nextProducts, cart)]
    /\ UNCHANGED nonCartVars
    /\ UNCHANGED trackVars

CartOpsNext ==
    \/ \E p \in ProductRecords : CartAdd(p)
    \/ \E p \in ProductRecords : CartRemove(p)
    \/ CartClear
    \/ \E f \in Catalogs : CartReconcile(f)

(***************************************************************************)
(* Specifications.                                                         *)
(***************************************************************************)
TrackInit ==
    /\ order = "null"
    /\ loading = TRUE
    /\ error = "null"
    /\ attempt = 1
    /\ timerRef = 0
    /\ pendingTimers = {}
    /\ inflight = {}
    /\ nFetch = 0
    /\ srvStatus \in {"NONE", "NEW"}
    /\ mounted = FALSE
    /\ termSeen = FALSE
    /\ okSeen = FALSE
    /\ lastDone = "none"

\* the menu page after its first render and mount effect: loadFirstTime()
\* is in flight
MenuInit ==
    /\ restaurant = NoRestaurant
    /\ products = {}
    /\ loadingFirst = TRUE
    /\ loadError = "null"
    /\ cart = {}
    /\ customerName = << >>
    /\ customerPhone = << >>
    /\ customerAddress = << >>
    /\ paymentMethod = "PIX"
    /\ cashChangeFor = << >>
    /\ isSubmitting = FALSE
    /\ toast = NoToast
    /\ sub = IdleSub
    /\ loadPc = "inflight"
    /\ navTimer = "none"
    /\ navTo = "none"
    /\ browser \in {"chrome", "firefox"}
    /\ srvOpen \in BOOLEAN
    /\ srvCatalog = [p \in ProductIds |-> "active"]
    /\ postLog = << >>
    /\ netCalls = << >>
    /\ isFetchingRef = FALSE
    /\ nRefresh = 0
    /\ srvPrice = Price
    /\ opCalls = NoCalls
    /\ srvPhone \in PhoneStrings
    /\ srvOrders = NoOrders

\* the other page's variables while one page is checked: untouched
TrackQuiet == TrackInit /\ srvStatus = "NONE"

MenuQuiet == MenuInit /\ browser = "chrome" /\ srvOpen /\ srvPhone = << >>

TrackNext ==
    \/ Mount
    \/ Unmount
    \/ \E t \in pendingTimers : TimerFires(t)
    \/ ManualRefresh
    \/ \E f \in inflight : BackendAnswers(f)
    \/ BackendAdvance
    \/ \E f \in inflight : FetchOrderDone(f)

\* the menu page, the user acting at any time
MenuNext ==
    \/ \E p \in products \cup {e.product : e \in cart} : AddProduct(p)
    \/ \E p \in products \cup {e.product : e \in cart} : RemoveProduct(p)
    \/ ClearCart
    \/ \E v \in NameInputs : SetCustomerName(v)
    \/ \E v \in PhoneInputs : SetCustomerPhone(v)
    \/ \E v \in AddressInputs : SetCustomerAddress(v)
    \/ \E pm \in PaymentInputs : SetPaymentMethod(pm)
    \/ \E v \in CashInputs : SetCashChangeFor(v)
    \/ ToastExpires
    \/ FinalizeOrder
    \/ \E o \in {"ok", "nonok", "neterr"} : SubFetchProductsDone(o)
    \/ \E r \in PostOutcomes : SubPostDone(r)
    \/ SubRetryWaitDone
    \/ NavTimerFires
    \/ \E rOk \in BOOLEAN, o \in {"ok", "nonok", "neterr"}, eager \in BOOLEAN :
          LoadFirstTimeDone(rOk, o, eager)
    \/ RetryLoad
    \/ BackendSetOpen
    \/ \E c \in CatalogChanges : BackendSetCatalog(c[1], c[2])

\* The user acts on a settled page: the last toast has gone and no submission
\* is running.  finalizeOrder() works on the values its closure captured at
\* the click and the toast is only written, so FormSpec loses no outcome of a
\* submission by this; MenuSpec has the user act at any time.
Settled == toast = NoToast /\ ~isSubmitting

UserAddProduct ==
    Settled /\ \E p \in products \cup {e.product : e \in cart} : AddProduct(p)

UserRemoveProduct ==
    Settled /\ \E p \in products \cup {e.product : e \in cart} : RemoveProduct(p)

UserClearCart == Settled /\ ClearCart

UserTypesName == Settled /\ \E v \in NameInputs : SetCustomerName(v)

UserTypesPhone == Settled /\ \E v \in PhoneInputs : SetCustomerPhone(v)

UserTypesAddress == Settled /\ \E v \in AddressInputs : SetCustomerAddress(v)

UserPicksPayment == Settled /\ \E pm \in PaymentInputs : SetPaymentMethod(pm)

UserTypesChange == Settled /\ \E v \in CashInputs : SetCashChangeFor(v)

\* the menu page with a catalog that does not change under the user
FormNext ==
    \/ UserAddProduct
    \/ UserRemoveProduct
    \/ UserClearCart
    \/ UserTypesName
    \/ UserTypesPhone
    \/ UserTypesAddress
    \/ UserPicksPayment
    \/ UserTypesChange
    \/ ToastExpires
    \/ FinalizeOrder
    \/ \E o \in {"ok", "nonok", "neterr"} : SubFetchProductsDone(o)
    \/ \E r \in PostOutcomes : SubPostDone(r)
    \/ SubRetryWaitDone
    \/ NavTimerFires
    \/ \E rOk \in BOOLEAN, o \in {"ok", "nonok", "neterr"}, eager \in BOOLEAN :
          LoadFirstTimeDone(rOk, o, eager)
    \/ RetryLoad

\* the tracking page on its own
TrackPageInit == TrackInit /\ MenuQuiet

\* the menu page on its own
MenuPageInit == MenuInit /\ TrackQuiet /\ srvPhone = << >>

TrackSpec == TrackPageInit /\ [][TrackNext]_vars

\* the tracking page that stays mounted
TrackLiveNext ==
    \/ Mount
    \/ \E t \in pendingTimers : TimerFires(t)
    \/ ManualRefresh
    \/ \E f \in inflight : BackendAnswers(f)
    \/ BackendAdvance
    \/ \E f \in inflight : FetchOrderDone(f)

\* The effect runs after the first render, a timer set with setTimeout fires,
\* the continuation of an awaited fetch runs once the fetch has settled, and
\* the backend answers every request; the user and the order's progress at
\* the backend are under no obligation.
TrackLiveSpec ==
    /\ TrackPageInit
    /\ [][TrackLiveNext]_vars
    /\ WF_vars(Mount)
    /\ WF_vars(\E t \in pendingTimers : TimerFires(t))
    /\ WF_vars(\E f \in inflight : BackendAnswers(f))
    /\ WF_vars(\E f \in inflight : FetchOrderDone(f))

MenuSpec == MenuPageInit /\ [][MenuNext]_vars

FormSpec == MenuPageInit /\ [][FormNext]_vars

\* The menu page with the cart, the catalog and its refreshes at work: the
\* user fills the form in once, before choosing products, and changes the
\* cart at any time, also while a submission or a refresh is running; the
\* backend deactivates and then removes product B and reprices A.
UserFillsName ==
    /\ Settled /\ cart = {} /\ customerName = << >>
    /\ SetCustomerName(<<"A", "n", "a">>)

UserFillsPhone ==
    /\ Settled /\ cart = {} /\ customerName # << >> /\ customerPhone = << >>
    /\ SetCustomerPhone(<<"1", "1", "9", "9", "9", "9", "9", "9", "9", "9">>)

UserFillsAddress ==
    /\ Settled /\ cart = {} /\ customerPhone # << >> /\ customerAddress = << >>
    /\ SetCustomerAddress(<<"R", "u", "a", " ", "1">>)

CatalogDrift == { <<"B", "active", "inactive">>, <<"B", "inactive", "absent">> }

\* how one create-order request ends while the cart is watched
CartPostOutcomes ==
    { PostResult("ok", "o1", "200", << >>), PostResult("nonok", "none", "400", << >>) }

CartNext ==
    \/ \E p \in products \cup {e.product : e \in cart} : AddProduct(p)
    \/ \E p \in products \cup {e.product : e \in cart} : RemoveProduct(p)
    \/ ClearCart
    \/ UserFillsName
    \/ UserFillsPhone
    \/ UserFillsAddress
    \/ ToastExpires
    \/ FinalizeOrder
    \/ \E o \in {"ok", "nonok", "neterr"} : SubFetchProductsDone(o)
    \/ \E r \in CartPostOutcomes : SubPostDone(r)
    \/ NavTimerFires
    \/ \E rOk \in BOOLEAN, o \in {"ok", "nonok", "neterr"}, eager \in BOOLEAN :
          LoadFirstTimeDone(rOk, o, eager)
    \/ RetryLoad
    \/ RefreshSilent
    \/ \E rOk \in BOOLEAN, o \in {"ok", "nonok", "neterr"}, eager \in BOOLEAN :
          RefreshSilentDone(rOk, o, eager)
    \/ \E d \in CatalogDrift : srvCatalog[d[1]] = d[2] /\ BackendSetCatalog(d[1], d[3])
    \/ \E c \in PriceChanges : BackendSetPrice(c[1], c[2])

CartPageInit ==
    MenuInit /\ TrackQuiet /\ browser = "chrome" /\ srvOpen /\ srvPhone = << >>

CartSpec == CartPageInit /\ [][CartNext]_vars

\* the menu page with the backend's side of the create-order requests: the
\* backend may have stored the order of a request whose answer never arrives
SubmitNext ==
    \/ UserAddProduct
    \/ UserFillsName
    \/ UserFillsPhone
    \/ UserFillsAddress
    \/ ToastExpires
    \/ FinalizeOrder
    \/ \E o \in {"ok", "nonok", "neterr"} : SubFetchProductsDone(o)
    \/ BackendCreatesOrder
    \/ \E r \in PostOutcomes : SubPostDone(r)
    \/ SubRetryWaitDone
    \/ NavTimerFires
    \/ \E rOk \in BOOLEAN, o \in {"ok", "nonok", "neterr"}, eager \in BOOLEAN :
          LoadFirstTimeDone(rOk, o, eager)
    \/ RetryLoad

SubmitInit ==
    MenuInit /\ TrackQuiet /\ browser = "chrome" /\ srvOpen /\ srvPhone = << >>

SubmitSpec == SubmitInit /\ [][SubmitNext]_vars

\* Every create-order request ends: it is answered, fails, or is aborted by
\* the 20 s timer of postWithRetry; the 800 ms wait before a retry ends.
\* The catalog re-fetch of finalizeOrder is a plain fetch() with no timer
\* and is under no such obligation.
SubmitLiveSpec ==
    /\ SubmitInit
    /\ [][SubmitNext]_vars
    /\ WF_vars(\E r \in PostOutcomes : SubPostDone(r))
    /\ WF_vars(SubRetryWaitDone)

\* the menu page loading a restaurant whose phone is any string of PhoneStrings
PhoneNext ==
    \/ \E rOk \in BOOLEAN, o \in {"ok", "nonok", "neterr"}, eager \in BOOLEAN :
          LoadFirstTimeDone(rOk, o, eager)
    \/ RetryLoad
    \/ RefreshSilent
    \/ \E rOk \in BOOLEAN, o \in {"ok", "nonok", "neterr"}, eager \in BOOLEAN :
          RefreshSilentDone(rOk, o, eager)

PhoneInit == MenuInit /\ TrackQuiet /\ browser = "chrome" /\ srvOpen

PhoneSpec == PhoneInit /\ [][PhoneNext]_vars

UserPicksCash == Settled /\ paymentMethod = "PIX" /\ SetPaymentMethod("CASH")

\* the menu page with orders paid in cash: the user fills the form on a
\* settled page, adds products at any time, also while a submission runs,
\* and the backend's prices change
OrderNext ==
    \/ \E p \in products \cup {e.product : e \in cart} : AddProduct(p)
    \/ UserFillsName
    \/ UserFillsPhone
    \/ UserFillsAddress
    \/ UserPicksCash
    \/ UserTypesChange
    \/ ToastExpires
    \/ FinalizeOrder
    \/ \E o \in {"ok", "nonok", "neterr"} : SubFetchProductsDone(o)
    \/ \E r \in PostOutcomes : SubPostDone(r)
    \/ SubRetryWaitDone
    \/ NavTimerFires
    \/ \E rOk \in BOOLEAN, o \in {"ok", "nonok", "neterr"}, eager \in BOOLEAN :
          LoadFirstTimeDone(rOk, o, eager)
    \/ RetryLoad
    \/ \E c \in PriceChanges : BackendSetPrice(c[1], c[2])

OrderInit ==
    MenuInit /\ TrackQuiet /\ browser = "chrome" /\ srvOpen /\ srvPhone = << >>

OrderSpec == OrderInit /\ [][OrderNext]_vars

\* the cart operations on the cart of a freshly mounted page
CartOpsInit ==
    MenuInit /\ TrackQuiet /\ browser = "chrome" /\ srvOpen /\ srvPhone = << >>

CartOpsSpec == CartOpsInit /\ [][CartOpsNext]_vars

(***************************************************************************)
(* Properties: order tracking (TrackSpec).                                 *)
(***************************************************************************)

\* C1: once a fetch has returned a DELIVERED or CANCELED order, no step
\* schedules a poll or issues a fetch.
C1_NoPollAfterTerminal ==
    [][termSeen => (nFetch' = nFetch /\ pendingTimers' \subseteq pendingTimers)]_vars

\* C2: the completion of a fetch answered 404 leaves the error field as it
\* was, does not bring up the error screen, and leaves a poll timer pending.
C2_NotFoundKeepsPolling ==
    [][\A f \in inflight :
          (f.resp = "404" /\ FetchOrderDone(f)) =>
              /\ error' = error
              /\ (Screen' = "error" => Screen = "error")
              /\ timerRef' # 0
              /\ timerRef' \in pendingTimers']_vars

\* C2 witness: a 404 has just been handled on a page without error, and the
\* next poll is pending.
C2_Witness ==
    /\ lastDone = "404"
    /\ inflight = {}
    /\ error = "null"
    /\ Screen # "error"
    /\ timerRef \in pendingTimers

\* C3: at most one order-status fetch is in flight at any time.
C3_OneFetchInFlight == Cardinality(inflight) <= 1

\* C4: after the page has unmounted no poll timer is pending.
C4_NoTimerAfterUnmount == (nFetch > 0 /\ ~mounted) => pendingTimers = {}

(***************************************************************************)
(* Properties: order submission (FormSpec).                                *)
(***************************************************************************)
PostCount(calls) == Cardinality({i \in 1..Len(calls) : calls[i] = "POST orders"})

\* C5: when the first create-order request timed out and the second is
\* answered OK, exactly 2 requests were sent, the submission ends with the
\* success toast and the redirect is set to the orderId of the answer.
C5_TimeoutThenSuccess ==
    [][\A r \in PostOutcomes :
          (/\ SubPostDone(r)
           /\ r.kind = "ok"
           /\ Len(postLog) = 1
           /\ postLog[1].kind = "timeout") =>
              /\ PostCount(netCalls') = 2
              /\ sub'.pc = "idle"
              /\ ~isSubmitting'
              /\ toast'.type = "success"
              /\ (r.orderId # "none" => navTimer' = r.orderId)]_vars

\* C5 witness: a submission ended after a timeout and an OK answer carrying
\* the order id o1, and the redirect to o1 is set.
C5_Witness ==
    /\ sub.pc = "idle"
    /\ Len(postLog) = 2
    /\ postLog[1].kind = "timeout"
    /\ postLog[2].kind = "ok"
    /\ postLog[2].orderId = "o1"
    /\ PostCount(netCalls) = 2
    /\ navTimer = "o1"

\* C6: a create-order request answered with a non-OK response is the last
\* request of its submission: the submission has ended, without a retry.
C6_RejectedNeverRetried ==
    \A i \in 1..Len(postLog) :
        postLog[i].kind = "nonok" => (i = Len(postLog) /\ sub.pc = "idle")

\* C7: a submission sends at most 2 create-order requests, and the step that
\* follows two retried failures ends it without a request, showing the error
\* of the second attempt.
C7_AtMostTwoRequests ==
    [][/\ PostCount(netCalls') <= 2
       /\ (sub.pc = "retryWait" /\ Len(postLog) = 2 /\ sub' # sub) =>
              /\ netCalls' = netCalls
              /\ sub'.pc = "idle"
              /\ ~isSubmitting'
              /\ toast' = Toast("error", PostErrorMessage(postLog[2]), 0)]_vars

\* C7 witness: a submission ended after a network failure and a timeout, the
\* timeout's message on screen.
C7_Witness ==
    /\ sub.pc = "idle"
    /\ Len(postLog) = 2
    /\ postLog[1].kind = "neterr"
    /\ postLog[2].kind = "timeout"
    /\ PostCount(netCalls) = 2
    /\ toast = Toast("error", AbortMessage(browser), 0)

\* C8: finalizeOrder() on an empty cart, or with a phone of fewer than 10
\* digits, shows an error and issues no request: no submission starts.
C8_RejectedBeforeNetwork ==
    [][(FinalizeOrder /\ (cart = {} \/ Len(onlyDigits(customerPhone)) < 10)) =>
          /\ toast'.type = "error"
          /\ netCalls' = netCalls
          /\ sub' = sub
          /\ sub'.pc = "idle"
          /\ isSubmitting' = isSubmitting]_vars

\* C8 witness: an open restaurant, a cart with items, a nine-digit phone, and
\* the rejection on screen with no request issued.
C8_Witness ==
    /\ restaurant.isOpen
    /\ cart # {}
    /\ Len(onlyDigits(customerPhone)) = 9
    /\ toast = Toast("error", <<"Preencha:", "Telefone valido">>, 0)
    /\ netCalls = << >>
    /\ sub.pc = "idle"

\* C9: finalizeOrder() surfaces the first failing check in the order
\* restaurant open, cart non-empty, customer fields, change-for amount, and
\* then leaves cart, customer fields and payment selection unchanged.
C9_FirstFailureSurfaced ==
    [][(FinalizeOrder /\ restaurant.loaded) =>
          LET closed == ~restaurant.isOpen
              empty == cart = {}
              fields == \/ Trim(customerName) = << >>
                        \/ Len(onlyDigits(customerPhone)) < 10
                        \/ Trim(customerAddress) = << >>
              change == /\ paymentMethod = "CASH"
                        /\ Trim(cashChangeFor) # << >>
                        /\ parseBRLToCents(cashChangeFor) < totalCents
          IN  (closed \/ empty \/ fields \/ change) =>
                /\ toast'.type = "error"
                /\ toast'.msg[1] =
                      (IF closed THEN "Restaurante esta fechado no momento."
                       ELSE IF empty THEN "Seu carrinho esta vazio."
                       ELSE IF fields THEN "Preencha:"
                       ELSE IF parseBRLToCents(cashChangeFor) = 0
                       THEN "Informe o valor do troco (ex: 50,00) ou deixe em branco."
                       ELSE "Troco invalido. O valor precisa ser maior ou igual ao total")
                /\ UNCHANGED << cart, formVars, sub, isSubmitting >>]_vars

\* C9 witness: an open restaurant, an empty cart and a blank form: the cart
\* check, the first to fail, is the one on screen.
C9_Witness ==
    /\ restaurant.isOpen
    /\ cart = {}
    /\ validateCustomer # << >>
    /\ toast = Toast("error", <<"Seu carrinho esta vazio.">>, 0)
    /\ sub.pc = "idle"

\* C10: with CASH and a change-for amount of c cents against a total of t,
\* finalizeOrder() (its earlier checks passing) rejects c < t with the
\* change message and starts the submission for c >= t.
C10_ChangeAgainstTotal ==
    [][(/\ FinalizeOrder
        /\ restaurant.isOpen
        /\ cart # {}
        /\ validateCustomer = << >>
        /\ ~isSubmitting
        /\ paymentMethod = "CASH"
        /\ parseBRLToCents(cashChangeFor) > 0) =>
          IF parseBRLToCents(cashChangeFor) < totalCents
          THEN /\ toast' = Toast("error",
                     <<"Troco invalido. O valor precisa ser maior ou igual ao total">>,
                     totalCents)
               /\ sub' = sub
          ELSE /\ sub'.pc = "fetchProducts"
               /\ isSubmitting']_vars

\* C10 witness: a submission started with CASH and a change-for amount equal
\* to the cart total.
C10_Witness ==
    /\ sub.pc = "fetchProducts"
    /\ sub.paymentMethod = "CASH"
    /\ parseBRLToCents(sub.cashChangeFor) = SumCents(sub.cartItems)
    /\ SumCents(sub.cartItems) > 0

\* C13: reconcile(freshProducts) removes exactly the cart entries whose
\* product id is absent from freshProducts or inactive there, keeps every
\* other entry with its quantity, and gives each kept entry the fresh record.
C13_ReconcileExact ==
    [][\A f \in {opCalls'.last.catalog} : CartReconcile(f) =>
          /\ \A e \in cart :
                IF \E q \in f : q.id = e.id /\ q.active
                THEN /\ HasEntry(cart', e.id)
                     /\ QtyOf(cart', e.id) = e.qty
                     /\ EntryOf(cart', e.id).product \in f
                ELSE ~HasEntry(cart', e.id)
          /\ \A e \in cart' : HasEntry(cart, e.id)
          /\ \A x \in cart', y \in cart' : x.id = y.id => x = y]_vars

\* a reconcile that dropped B (inactive in the catalog) and kept A at
\* quantity 2 with the catalog's new price
C13_Witness ==
    /\ opCalls.last.op = "reconcile"
    /\ [id |-> "A", priceCents |-> 700, active |-> TRUE] \in opCalls.last.catalog
    /\ [id |-> "B", priceCents |-> 300, active |-> FALSE] \in opCalls.last.catalog
    /\ opCalls.last.before =
          { [id |-> "A", product |-> [id |-> "A", priceCents |-> 500, active |-> TRUE], qty |-> 2],
            [id |-> "B", product |-> [id |-> "B", priceCents |-> 300, active |-> TRUE], qty |-> 1] }
    /\ cart = { [id |-> "A", product |-> [id |-> "A", priceCents |-> 700, active |-> TRUE], qty |-> 2] }

Max0(n) == IF n < 0 THEN 0 ELSE n

\* C15 (as stated): for every sequence of add/remove calls on an active
\* product from the empty cart, its quantity is the number of add calls minus
\* the number of remove calls, floored at 0, and its entry is absent exactly
\* when that quantity is 0.
C15_AddsMinusRemoves ==
    \A id \in ProductIds :
        /\ QtyOf(cart, id) =
              Max0(opCalls.count[id].add - opCalls.count[id].remove)
        /\ HasEntry(cart, id) <=> QtyOf(cart, id) # 0

\* C15 (amended): the quantity is the number of add calls minus the number of
\* remove calls that found the product in the cart (a remove call on an
\* absent product is a no-op and is not made up for by a later add); the
\* entry is absent exactly when that quantity is 0.
C15_AddsMinusEffectiveRemoves ==
    \A id \in ProductIds :
        /\ QtyOf(cart, id) =
              opCalls.count[id].add
                - (opCalls.count[id].remove - opCalls.count[id].noop)
        /\ HasEntry(cart, id) <=> QtyOf(cart, id) # 0
        /\ HasEntry(cart, id) => EntryOf(cart, id).qty >= 1

\* remove, add, add, remove on A: one remove was a no-op, quantity 1
C15_Witness ==
    /\ opCalls.count["A"] = [add |-> 2, remove |-> 2, noop |-> 1]
    /\ QtyOf(cart, "A") = 1
    /\ opCalls.last.op = "remove"

\* C16: add(product) with product.active = false leaves the cart as it was,
\* whatever the cart holds.
C16_AddInactiveNoOp ==
    [][\A p \in {opCalls'.last.product} :
          (opCalls'.last.op = "add" /\ ~p.active /\ CartAdd(p)) => cart' = cart]_vars

\* addProduct was called last with an inactive record of a product the cart
\* holds, and the cart is what it was
C16_Witness ==
    /\ opCalls.last.op = "add"
    /\ ~opCalls.last.product.active
    /\ HasEntry(cart, opCalls.last.product.id)
    /\ Cardinality(cart) = 2
    /\ cart = opCalls.last.before

\* quantity and unit price of the cart's line for id (0 when there is none)
LineCents(id) ==
    IF HasEntry(cart, id)
    THEN EntryOf(cart, id).product.priceCents * EntryOf(cart, id).qty
    ELSE 0

CartIs(qa, pa, qb, pb) ==
    /\ QtyOf(cart, "A") = qa
    /\ qa > 0 => EntryOf(cart, "A").product.priceCents = pa
    /\ QtyOf(cart, "B") = qb
    /\ qb > 0 => EntryOf(cart, "B").product.priceCents = pb

\* C17: the displayed total is the sum over the current cart entries of
\* price times quantity after any interleaving of add, remove, clear and
\* reconcile: {A:2@500, B:1@300} totals 1300, {A:1@500, B:1@300} 800,
\* {B:1@300} 300.
C17_TotalIsSum ==
    /\ totalCents = LineCents("A") + LineCents("B")
    /\ CartIs(2, 500, 1, 300) => totalCents = 1300
    /\ CartIs(1, 500, 1, 300) => totalCents = 800
    /\ CartIs(0, 0, 1, 300) => totalCents = 300

\* the example's last step: A removed from {A:1@500, B:1@300}
C17_Witness ==
    /\ opCalls.last.op = "remove"
    /\ opCalls.last.product.id = "A"
    /\ opCalls.last.before =
          { [id |-> "A", product |-> [id |-> "A", priceCents |-> 500, active |-> TRUE], qty |-> 1],
            [id |-> "B", product |-> [id |-> "B", priceCents |-> 300, active |-> TRUE], qty |-> 1] }
    /\ CartIs(0, 0, 1, 300)
    /\ totalCents = 300

\* the step issues a create-order request
IssuesPost == PostCount(netCalls') > PostCount(netCalls)

\* the lines of the cart c whose product is present and active in fresh
Surviving(c, fresh) == {e \in c : \E q \in fresh : q.id = e.id /\ q.active}

\* the (productId, quantity) pairs of the cart c
LinesOf(c) == {[productId |-> e.id, quantity |-> e.qty] : e \in c}

\* C11: a create-order request is issued only when every line of the cart is
\* present and active in the catalog fetched just before, and the request's
\* items are then one (productId, quantity) pair per cart line, with the
\* cart's quantities.
C11_RequestMatchesCart ==
    [][(IssuesPost /\ SubFetchProductsDone("ok")) =>
          /\ Surviving(cart, FreshProducts) = cart
          /\ sub'.payload.items = LinesOf(cart)]_vars

\* C12: when the pre-submission catalog check leaves fewer surviving lines
\* than the cart has, no create-order request is issued and the cart
\* afterwards holds exactly the surviving lines, quantities unchanged.
C12_CartBecomesSurvivors ==
    [][\A o \in {"ok", "nonok"} :
          LET fresh == IF o = "ok" THEN FreshProducts ELSE {}
          IN  (SubFetchProductsDone(o)
               /\ Cardinality(Surviving(cart, fresh)) < Cardinality(cart)) =>
                  /\ ~IssuesPost
                  /\ LinesOf(cart') = LinesOf(Surviving(cart, fresh))]_vars

\* C14: reconcile signals its caller (the "items were removed" toast) when
\* it dropped at least one cart entry, and never when it dropped none,
\* whenever the deferred cart update is applied.
C14_DropIsSignalled ==
    [][\A rOk \in BOOLEAN, o \in {"ok", "nonok", "neterr"}, eager \in BOOLEAN :
          RefreshSilentDone(rOk, o, eager) =>
              IF Cardinality(cart') < Cardinality(cart)
              THEN toast' = RemovedToast
              ELSE toast' = toast]_vars

\* C18: every cart entry has quantity >= 1 in every reachable state.
C18_QuantityPositive == \A e \in cart : e.qty >= 1

\* the pre-submission check has replaced the cart by its one surviving line
C18_Witness ==
    /\ toast = RemovedToast
    /\ sub = IdleSub
    /\ netCalls = <<"GET products">>
    /\ Cardinality(cart) = 1
    /\ \A e \in cart : e.qty = 1

UserChangesCart ==
    \/ \E p \in products \cup {e.product : e \in cart} : AddProduct(p)
    \/ \E p \in products \cup {e.product : e \in cart} : RemoveProduct(p)
    \/ ClearCart

OrderSucceeds == \E r \in PostOutcomes : r.kind = "ok" /\ SubPostDone(r)

\* C19 (as stated): the cart starts empty, its entries change only through
\* the user's add/remove actions, and it is emptied only by a successful
\* order submission or the user's clear action; no other event changes it.
C19_OnlyUserAndSuccess ==
    /\ cart = {}
    /\ [][cart' # cart => (UserChangesCart \/ OrderSucceeds)]_vars

\* C19 (amended): the cart starts empty and changes only through the user's
\* add, remove and clear actions, a successful order submission (which
\* empties it), the reconciliation that ends a catalog refresh (which drops
\* the entries whose product is absent or inactive in the fetched list, all
\* of them when the product list request is answered non-OK, and refreshes
\* the product data of the others), and the pre-submission catalog check
\* (which replaces it by the surviving lines of the cart read at the click);
\* no other event changes it.
C19_CartChangesOnlyBy ==
    /\ cart = {}
    /\ [][cart' # cart =>
            \/ UserChangesCart
            \/ OrderSucceeds /\ cart' = {}
            \/ \E o \in {"ok", "nonok"} :
                  /\ \E rOk \in BOOLEAN, eager \in BOOLEAN :
                        RefreshSilentDone(rOk, o, eager)
                  /\ cart' = syncCartWithProducts(
                                cart, IF o = "ok" THEN FreshProducts ELSE {})
            \/ \E o \in {"ok", "nonok"} :
                  /\ SubFetchProductsDone(o)
                  /\ LinesOf(cart') =
                        LinesOf(Surviving(sub.cartItems,
                                          IF o = "ok" THEN FreshProducts ELSE {}))
          ]_vars

\* a failed create-order request has left the cart as it was, after a
\* refresh had dropped product B from it
C19_Witness ==
    /\ toast.type = "error"
    /\ Len(postLog) = 1 /\ postLog[1].kind = "nonok"
    /\ Cardinality(cart) = 1
    /\ srvCatalog["B"] # "active"
    /\ \A q \in products : q.id = "B" => ~q.active

\* C20: when the create-order request succeeds, the cart is empty and the
\* customer name, phone and address are blank afterwards, and the user is
\* taken to the tracking view of the order id the backend returned (and to
\* no other place).
C20_SuccessResetsAndNavigates ==
    [][/\ \A r \in PostOutcomes : (r.kind = "ok" /\ SubPostDone(r)) =>
             /\ cart' = {}
             /\ customerName' = << >>
             /\ customerPhone' = << >>
             /\ customerAddress' = << >>
             /\ r.orderId # "none" => navTimer' = r.orderId
       /\ navTo' # navTo =>
             /\ navTo' = navTimer
             /\ navTimer # "none"]_vars

\* the page has left for /pedido/o1 after a successful submission
C20_Witness ==
    /\ navTo = "o1"
    /\ toast.type = "success"
    /\ cart = {}
    /\ customerName = << >> /\ customerPhone = << >> /\ customerAddress = << >>

IsFailure(resp) == resp = "500" \/ resp = "neterr"

\* C23: a failed status fetch never clears or alters the held order; once an
\* order has been fetched the held order is never null again and the page
\* keeps showing it.
C23_FailureKeepsOrder ==
    [][/\ \A f \in inflight :
             (IsFailure(f.resp) /\ FetchOrderDone(f)) => order' = order
       /\ order # "null" => (order' # "null" /\ Screen' = "order")]_vars

\* an order is held and shown although the last fetch failed
C23_Witness ==
    /\ IsFailure(lastDone)
    /\ error # "null"
    /\ order \in OrderStatus
    /\ Screen = "order"

\* C24: manual refresh cancels any pending scheduled fetch, issues exactly
\* one fetch at once, and when that fetch completes with anything but a
\* terminal status a follow-up poll is scheduled again.
C24_ManualRefreshReschedules ==
    [][/\ ManualRefresh =>
             /\ pendingTimers # {}
                   => (pendingTimers = {timerRef} /\ timerRef \notin pendingTimers')
             /\ pendingTimers' = {}
             /\ nFetch' = nFetch + 1
             /\ \E f \in inflight' :
                   /\ inflight' = inflight \cup {f}
                   /\ f \notin inflight
                   /\ f.via = "manual"
       /\ \A f \in inflight :
             (f.via = "manual" /\ ~IsTerminal(f.resp) /\ FetchOrderDone(f)) =>
                 pendingTimers' = {timerRef'}]_vars

\* the fetch of a manual refresh made from the order screen is in flight and
\* no poll is scheduled
C24_Witness ==
    /\ order \in OrderStatus
    /\ pendingTimers = {}
    /\ timerRef = 0
    /\ \E f \in inflight : f.via = "manual"
    /\ Cardinality(inflight) = 1

\* C25: one fetch is issued at mount, and after every completed fetch whose
\* outcome is not a terminal status (non-terminal order, not found, error) a
\* follow-up fetch is scheduled.
C25_PollsUnlessTerminal ==
    [][/\ Mount => (nFetch' = 1 /\ Cardinality(inflight') = 1)
       /\ \A f \in inflight :
             (~IsTerminal(f.resp) /\ FetchOrderDone(f)) =>
                 /\ timerRef' # 0
                 /\ pendingTimers' = {timerRef'}]_vars

\* a poll is scheduled after a fetch that ended in an error
C25_Witness ==
    /\ IsFailure(lastDone)
    /\ inflight = {}
    /\ pendingTimers = {timerRef}
    /\ mounted

\* C26: the error screen shows only while no order has ever been fetched;
\* with an order held the page shows the order, whose status is non-terminal
\* (tracking) or DELIVERED/CANCELED (terminal).
C26_ErrorOnlyWithoutData ==
    /\ Screen = "error" => ~okSeen
    /\ okSeen => (Screen = "order" /\ order \in OrderStatus)

\* an order is held, a later fetch has failed, and the order is on screen
C26_Witness ==
    /\ okSeen
    /\ error # "null"
    /\ IsFailure(lastDone)
    /\ Screen = "order"
    /\ ~IsTerminal(order)

\* C30: once the held order has a terminal status it is never replaced by an
\* order with a non-terminal status, whatever the order in which the
\* responses of overlapping fetches arrive.
C30_TerminalIsFinal ==
    [][IsTerminal(order) => IsTerminal(order')]_vars

\* C21: when the restaurant fetch succeeds, any failure of the product-list
\* fetch (non-OK answer or network error) ends the load with an empty product
\* list and the menu shown, never with the load-error screen.
C21_ProductFailureDegrades ==
    [][\A o \in {"nonok", "neterr"}, e \in BOOLEAN :
          LoadFirstTimeDone(TRUE, o, e) =>
              /\ products' = {}
              /\ MenuShown'
              /\ ~LoadErrorScreen']_vars

\* C22: a failed restaurant fetch ends the load on the load-error screen with
\* no menu shown; that screen is left only by the manual retry, which re-runs
\* the load; a retry whose restaurant fetch succeeds ends with the error
\* cleared and the menu shown.
C22_RestaurantFailureBlocks ==
    [][/\ \A o \in {"ok", "nonok", "neterr"}, e \in BOOLEAN :
             LoadFirstTimeDone(FALSE, o, e) => (LoadErrorScreen' /\ ~MenuShown')
       /\ (LoadErrorScreen /\ ~LoadErrorScreen') =>
             (RetryLoad /\ loadingFirst' /\ loadPc' = "inflight")
       /\ \A o \in {"ok", "nonok"}, e \in BOOLEAN :
             LoadFirstTimeDone(TRUE, o, e) =>
                 (loadError' = "null" /\ MenuShown' /\ restaurant'.loaded)]_vars

\* the load has ended with a failed restaurant fetch: the load-error screen
\* is up, no restaurant is held and the retry button is the way out
C22_Witness ==
    /\ LoadErrorScreen
    /\ loadError = "Erro ao carregar restaurante"
    /\ ~restaurant.loaded
    /\ ~MenuShown
    /\ ENABLED RetryLoad

\* C29: when a submission succeeds, the items sent in the create-order
\* request are exactly the lines of the cart that the success clears; no add
\* or remove made while the submission was in flight is dropped unsent.
C29_ClearedCartWasSent ==
    [][OrderSucceeds => (cart' = {} /\ sub.payload.items = LinesOf(cart))]_vars

\* C27: the phone of the WhatsApp link is the restaurant's phone reduced to
\* its digits, with 55 put in front unless the digits already start with 55,
\* and there is no link when the phone has no digit; normalising the result
\* again changes nothing, and the result always starts with 55.
C27_WhatsAppPhone ==
    MenuShown =>
        LET d == onlyDigits(restaurant.phone)
        IN  /\ d = << >> => waPhone = NoLink
            /\ (d # << >> /\ StartsWith55(d)) => waPhone = d
            /\ (d # << >> /\ ~StartsWith55(d)) => waPhone = <<"5", "5">> \o d
            /\ waPhone # NoLink =>
                  /\ StartsWith55(waPhone)
                  /\ sanitizePhoneForWhatsApp(waPhone) = waPhone

\* the menu is shown for a restaurant whose phone is written "+551": the
\* link phone is 551, nothing put in front
C27_Witness ==
    /\ MenuShown
    /\ restaurant.phone = <<"+", "5", "5", "1">>
    /\ waPhone = <<"5", "5", "1">>

\* C28: one order submission never makes the backend create more than one
\* order, also when a create-order request times out on the client after the
\* backend has stored its order and the request is sent again.
C28_AtMostOneOrder ==
    srvOrders.count <= 1

\* C36: in every reachable state at most one poll timer is pending, and it is
\* the one timerRef holds: scheduling a follow-up cancels the timer pending
\* before, also when two fetches complete one right after the other.
C36_OnePendingTimer ==
    /\ Cardinality(pendingTimers) <= 1
    /\ pendingTimers # {} => pendingTimers = {timerRef}

\* two overlapping fetches have both completed with a non-terminal outcome
\* and one timer is pending
C36_Witness ==
    /\ nFetch = 2
    /\ inflight = {}
    /\ ~IsTerminal(lastDone)
    /\ lastDone # "none"
    /\ attempt >= 2
    /\ Cardinality(pendingTimers) = 1

\* the backend holds a terminal order and every answer on its way is that order
ReportsTerminal ==
    /\ IsTerminal(srvStatus)
    /\ \A f \in inflight : f.resp \in {"sent", srvStatus}

\* the page holds a terminal order and polling is over
PollingOver ==
    /\ IsTerminal(order)
    /\ pendingTimers = {}
    /\ inflight = {}

\* a poll is due that the bound on fetches keeps from being issued
CutByBound == nFetch = MaxFetches /\ pendingTimers # {}

C34_NonOkKeepsCart ==
    [][((\E rOk \in BOOLEAN, e \in BOOLEAN : RefreshSilentDone(rOk, "nonok", e))
          \/ SubFetchProductsDone("nonok")) =>
              \A x \in cart : \E y \in cart' : y.id = x.id]_vars

\* C35: a background refresh starts only when none is running, so at most
\* one is in flight; a refresh whose restaurant fetch or product fetch throws
\* leaves the restaurant, the product list and the cart as they were and
\* releases the in-flight guard.
C35_OneRefreshFailureInert ==
    /\ [](nRefresh <= 1 /\ (isFetchingRef <=> nRefresh = 1))
    /\ [][\A rOk \in BOOLEAN, o \in {"ok", "nonok", "neterr"}, e \in BOOLEAN :
             (RefreshSilentDone(rOk, o, e) /\ (~rOk \/ o = "neterr")) =>
                 /\ ~isFetchingRef'
                 /\ nRefresh' = 0
                 /\ UNCHANGED << restaurant, products, cart, toast >>]_vars

\* a refresh is in flight on a page whose cart holds a product the backend
\* has meanwhile deactivated: a failed refresh must leave that line alone
C35_Witness ==
    /\ isFetchingRef
    /\ nRefresh = 1
    /\ MenuShown
    /\ srvCatalog["B"] # "active"
    /\ \E x \in cart : x.id = "B"
    /\ ENABLED RefreshSilentDone(FALSE, "ok", FALSE)

\* a submission is running: finalizeOrder() is between setIsSubmitting(true)
\* and its finally
SubmissionRunning == sub.pc # "idle"

\* C32: isSubmitting is true exactly while a submission is between passing
\* validation and finishing, so it is false again after every outcome; a
\* finalize click made meanwhile starts no second submission: the running
\* one, its requests and its results are left as they are.
C32_OneSubmission ==
    /\ [](isSubmitting <=> SubmissionRunning)
    /\ [][(FinalizeOrder /\ SubmissionRunning) =>
             UNCHANGED << sub, isSubmitting, netCalls, postLog >>]_vars

\* a submission is waiting to retry its request and the finalize handler can
\* be called again
C32_Witness ==
    /\ isSubmitting
    /\ sub.pc = "retryWait"
    /\ ValidationToast = NoToast
    /\ ENABLED FinalizeOrder

\* the sum of fresh-catalog price times quantity over the request items
FreshTotal(items) ==
    LET RECURSIVE Sum(_)
        Sum(S) == IF S = {} THEN 0
                  ELSE LET i == CHOOSE x \in S : TRUE
                       IN  srvPrice[i.productId] * i.quantity + Sum(S \ {i})
    IN  Sum(items)

\* C31: for a CASH order with a change-for amount, the cashChangeForCents of
\* the create-order request is at least the sum of fresh-catalog price times
\* quantity over the items of the request.
C31_ChangeCoversFreshTotal ==
    [][(IssuesPost /\ SubFetchProductsDone("ok")
          /\ sub'.payload.paymentMethod = "CASH"
          /\ sub'.payload.cashChangeForCents > 0) =>
              sub'.payload.cashChangeForCents >= FreshTotal(sub'.payload.items)]_vars

\* the step ends a submission because its create-order request failed: a
\* rejection that is not retried, or the last retry used up
SubmissionFails ==
    \/ \E r \in PostOutcomes : r.kind # "ok" /\ SubPostDone(r) /\ ~isSubmitting'
    \/ SubRetryWaitDone /\ ~isSubmitting'

C38_SubmissionFinishes ==
    isSubmitting ~> (~isSubmitting \/ ~PageLive)
====
